---- MODULE Spec2Model ----
(***************************************************************************)
(* The memory engine of the character chatbot: the long-term store         *)
(* (RAGMemorySystem over a ChromaDB collection), the per-user short-term   *)
(* buffers and the chat orchestration (ChatBot).                           *)
(*                                                                         *)
(* Texts are a small set of strings, timestamps are clock readings         *)
(* (ISO strings compare as the instants they denote), distances are whole  *)
(* numbers in the unit of the code's "1 - distance".                       *)
(***************************************************************************)
EXTENDS Integers, Sequences, FiniteSets, TLC

\* ------------------------------------------------------------------ bounds
MaxW == 2          \* largest configured short_term_memory_size drawn
MaxK == 2          \* largest n_results drawn for a search or a recent listing
MaxTime == 1       \* the clock is read only up to this instant
MaxAdds == 3       \* add_memory calls made on a store driven directly
MaxChats == 2      \* chat calls that get as far as saving a turn
MaxTurns == 3      \* turns retained in one user's conversation_history

\* ------------------------------------------------------------------ values
Users == {"u1", "u2"}
Roles == {"user", "assistant"}

\* what a caller can type and what the generation call can return
Texts == {"", "hi"}

\* chatbot.py:132, the text _generate_response returns when the API call raised
ApologyText == "sorry"

\* min_relevance: the default 0.0, and a threshold that lets every record through
MinRelevances == {-1, 0}

\* metadata=None (or {}), both falsy at rag_system.py:91
NoMeta == [key \in {} |-> ""]

\* the metadata argument of add_memory: absent, or a dict carrying a user_id key
MetaInputs == {NoMeta, [key \in {"user_id"} |-> "u2"]}

VARIABLES
    short_term_memory_size,   \* ChatBot.short_term_memory_size
    conversation_history,     \* ChatBot.conversation_history: user -> list of turns
    collection,               \* the ChromaDB collection: a set of records, one per id
    now,                      \* the last reading of datetime.now()
    calls,                    \* add_memory calls made so far
    added,                    \* per owner of the record built: add_memory calls that returned
    removed,                  \* per user: records removed by delete_user_memories
    last,                     \* the last call that can write: arguments, outcome, result
    threads,                  \* per user: the chat call in flight, step by step
    gui                       \* ChatGUI: its fields, worker threads and Tk callbacks

vars == <<short_term_memory_size, conversation_history, collection, now,
          calls, added, removed, last, threads, gui>>

\* ChatBot.max_memory_results, at its default
max_memory_results == 5

\* ------------------------------------------------------------------ helpers
Max(a, b) == IF a >= b THEN a ELSE b
Min(a, b) == IF a <= b THEN a ELSE b

\* datetime.now(): a reading never earlier than the previous one; two readings
\* can be equal
ClockReads(t) == t..MaxTime

\* the squared-L2 distance ChromaDB reports between the embeddings of two texts
Distance(a, b) ==
    IF a = b THEN 0
    ELSE IF ApologyText \in {a, b} THEN 1
    ELSE 2

\* dict.update
DictUpdate(base, upd) ==
    [key \in (DOMAIN base) \cup (DOMAIN upd) |->
        IF key \in DOMAIN upd THEN upd[key] ELSE base[key]]

\* All listings of the set S in non-decreasing key order; equal keys in any order.
RECURSIVE Orders(_, _)
Orders(S, key) ==
    IF S = {} THEN {<<>>}
    ELSE LET lo == {r \in S : \A o \in S : key[r] <= key[o]}
         IN UNION {{<<r>> \o rest : rest \in Orders(S \ {r}, key)} : r \in lo}

\* list[:n] for n >= 0
Take(s, n) == SubSeq(s, 1, Min(n, Len(s)))

\* list[start:] with Python's treatment of a negative start
SliceFrom(s, start) ==
    LET from == IF start < 0 THEN Max(Len(s) + start, 0) ELSE Min(start, Len(s))
    IN SubSeq(s, from + 1, Len(s))

\* ------------------------------------------------------------------ RAGMemorySystem
\* (mutation of Where: the where filter left out)
WhereAnyUser(coll, user_id) == coll

\* collection.get / collection.query with where={"user_id": user_id}
Where(coll, user_id) == {r \in coll : r.user_id = user_id}

\* (mutation of NewRecord: the id built without the user_id)
NewRecordIdWithoutUser(user_id, message, role, metadata, timestamp) ==
    LET meta == DictUpdate([user_id |-> user_id, role |-> role,
                            timestamp |-> timestamp], metadata)
    IN [id |-> <<"", role, timestamp>>,
        user_id |-> meta.user_id,
        role |-> meta.role,
        timestamp |-> meta.timestamp,
        content |-> message]

\* the record add_memory builds from its arguments and the clock reading
NewRecord(user_id, message, role, metadata, timestamp) ==
    LET meta == DictUpdate([user_id |-> user_id, role |-> role,
                            timestamp |-> timestamp], metadata)
    IN [id |-> <<user_id, role, timestamp>>,
        user_id |-> meta.user_id,
        role |-> meta.role,
        timestamp |-> meta.timestamp,
        content |-> message]

\* collection.add: a record whose id is already in the collection is ignored
CollectionAdd(coll, rec) ==
    IF \E r \in coll : r.id = rec.id THEN coll ELSE coll \cup {rec}

\* Memory(content, metadata, relevance)
Memory(rec, relevance) ==
    [content |-> rec.content,
     metadata |-> [user_id |-> rec.user_id, role |-> rec.role,
                   timestamp |-> rec.timestamp],
     relevance |-> relevance,
     timestamp |-> rec.timestamp,
     role |-> rec.role]

\* (mutation of QueryResults: the hits listed farthest first)
QueryResultsFarthestFirst(coll, query, user_id, n_results) ==
    LET found == Where(coll, user_id)
        closeness == [r \in found |-> 0 - Distance(query, r.content)]
    IN {Take(s, n_results) : s \in Orders(found, closeness)}

\* collection.query: the n_results nearest records of the user, nearest first
QueryResults(coll, query, user_id, n_results) ==
    LET found == Where(coll, user_id)
        distances == [r \in found |-> Distance(query, r.content)]
    IN {Take(s, n_results) : s \in Orders(found, distances)}

\* relevance = 1 - distance
Relevance(query, rec) == 1 - Distance(query, rec.content)

\* the loop of search_memories over one query result
RECURSIVE ToMemories(_, _, _)
ToMemories(hits, query, min_relevance) ==
    IF hits = <<>> THEN <<>>
    ELSE LET relevance == Relevance(query, Head(hits))
             rest == ToMemories(Tail(hits), query, min_relevance)
         IN IF relevance >= min_relevance
            THEN <<Memory(Head(hits), relevance)>> \o rest
            ELSE rest

\* search_memories: every list it can return
SearchMemories(coll, query, user_id, n_results, min_relevance) ==
    {ToMemories(hits, query, min_relevance) :
        hits \in QueryResults(coll, query, user_id, n_results)}

\* get_user_memory_count
GetUserMemoryCount(coll, user_id) == Cardinality(Where(coll, user_id))

\* (mutation of DeleteFound: the ids to delete picked by their user prefix)
DeleteByIdPrefix(coll, user_id) == {r \in coll : r.id[1] # user_id}

\* (mutation of DeleteFound: the whole collection deleted)
DeleteEveryone(coll, user_id) == {}

\* delete_user_memories: the collection once the ids that collection.get found
\* for the user are deleted
DeleteFound(coll, user_id) == coll \ Where(coll, user_id)

\* (mutation of GetRecentMemories: the sort without reverse=True)
GetRecentMemoriesOldestFirst(coll, user_id, n_results) ==
    LET found == Where(coll, user_id)
        age == [r \in found |-> r.timestamp]
        RECURSIVE AsMemories(_)
        AsMemories(recs) ==
            IF recs = <<>> THEN <<>>
            ELSE <<Memory(Head(recs), 1)>> \o AsMemories(Tail(recs))
    IN {Take(AsMemories(s), n_results) : s \in Orders(found, age)}

\* get_recent_memories: collection.get lists the user's records in the
\* backend's order, the stable sort puts later timestamps first
GetRecentMemories(coll, user_id, n_results) ==
    LET found == Where(coll, user_id)
        age == [r \in found |-> 0 - r.timestamp]
        RECURSIVE AsMemories(_)
        AsMemories(recs) ==
            IF recs = <<>> THEN <<>>
            ELSE <<Memory(Head(recs), 1)>> \o AsMemories(Tail(recs))
    IN {Take(AsMemories(s), n_results) : s \in Orders(found, age)}

\* ------------------------------------------------------------------ ChatBot
\* _get_short_term_history
GetShortTermHistory(hist, user_id, size) ==
    IF user_id \notin DOMAIN hist THEN <<>>
    ELSE SliceFrom(hist[user_id], -size)

\* the short-term half of _save_to_memory
AppendTurn(hist, user_id, message, role, timestamp) ==
    LET turn == [role |-> role, content |-> message, timestamp |-> timestamp]
    IN [u \in (DOMAIN hist) \cup {user_id} |->
           IF u = user_id
           THEN (IF u \in DOMAIN hist THEN Append(hist[u], turn) ELSE <<turn>>)
           ELSE hist[u]]

\* (mutation of DropHistory: every user's buffer dropped)
DropEveryHistory(hist, user_id) == [u \in {} |-> <<>>]

\* del self.conversation_history[user_id], when the key is there
DropHistory(hist, user_id) == [u \in (DOMAIN hist) \ {user_id} |-> hist[u]]

\* self.conversation_history.get(user_id, [])
HistOf(hist, user_id) == IF user_id \in DOMAIN hist THEN hist[user_id] ELSE <<>>

HistLen(hist, user_id) == Len(HistOf(hist, user_id))

\* ------------------------------------------------------------------ PromptBuilder
\* A text is a sequence of pieces; a line break is the piece "\n".
LongTermHeader == "## memories:"            \* prompt_builder.py:46
ShortTermHeader == "## conversation:"       \* prompt_builder.py:59
FirstTimeLine == "(first conversation)"     \* prompt_builder.py:67
SeparatorLine == "---"                      \* prompt_builder.py:71
CurrentPrefix == "current message: "        \* prompt_builder.py:72

\* "ユーザー" if role == "user" else "あなた"
RoleName(role) == IF role = "user" THEN "User" ELSE "You"

\* _format_timestamp: the instant to the minute, a minute being two clock ticks
FormatTimestamp(timestamp) == ToString(timestamp \div 2)

\* "★" * int(memory.relevance * 3); a count below 1 gives the empty string
RelevanceIndicator(relevance) == [i \in 1..Max(3 * relevance, 0) |-> "*"]

\* f"{i}. [{timestamp}] {relevance_indicator} {role_name}: {memory.content}"
MemoryLine(i, memory) ==
    <<ToString(i), ". [", FormatTimestamp(memory.timestamp), "] ">>
        \o RelevanceIndicator(memory.relevance)
        \o <<" ", RoleName(memory.role), ": ", memory.content>>

\* f"{role_name}: {msg.content}"
TurnLine(msg) == <<RoleName(msg.role), ": ", msg.content>>

\* "\n".join(lines)
RECURSIVE Join(_)
Join(lines) ==
    IF lines = <<>> THEN <<>>
    ELSE IF Len(lines) = 1 THEN lines[1]
    ELSE lines[1] \o <<"\n">> \o Join(Tail(lines))

\* (mutation of NoPriorContext: `or` for `and`)
NoPriorContextEither(memories, short_term_history) ==
    memories = <<>> \/ short_term_history = <<>>

\* not memories and not short_term_history
NoPriorContext(memories, short_term_history) ==
    memories = <<>> /\ short_term_history = <<>>

\* PromptBuilder.build_context_from_memories
BuildContextFromMemories(memories, short_term_history, current_message) ==
    LET long_term ==
            IF memories # <<>>
            THEN <<<<LongTermHeader>>>>
                   \o [i \in 1..Len(memories) |-> MemoryLine(i, memories[i])]
                   \o <<<<>>>>
            ELSE <<>>
        short_term ==
            IF short_term_history # <<>>
            THEN <<<<ShortTermHeader>>>>
                   \o [i \in 1..Len(short_term_history) |->
                          TurnLine(short_term_history[i])]
                   \o <<<<>>>>
            ELSE <<>>
        first_time ==
            IF NoPriorContext(memories, short_term_history)
            THEN <<<<FirstTimeLine>>, <<>>>>
            ELSE <<>>
        context_parts ==
            long_term \o short_term \o first_time
                \o <<<<SeparatorLine>>, <<CurrentPrefix, current_message>>>>
    IN Join(context_parts)

\* ------------------------------------------------------------------ state
Blank ==
    [op |-> "none", user |-> "", outcome |-> "none", query |-> "",
     mems |-> <<>>, num |-> 0, text |-> "", gen |-> "none", failed |-> "none",
     window |-> <<>>, dict |-> NoMeta, id |-> <<>>, turns |-> 0,
     context |-> <<>>]

\* a user with no chat call in flight. alone_history and alone_records are what
\* the user's own chat calls, run on a buffer and a store of their own with the
\* same texts and clock readings, have produced so far; before_history and
\* before_records are the user's buffer and records as the call in flight found
\* them; failed is the step of the user's latest call that raised.
IdleThread ==
    [pc |-> "idle", message |-> "", mems |-> <<>>, window |-> <<>>,
     context |-> <<>>, response |-> "", outcome |-> "none", failed |-> "none",
     chats |-> 0,
     alone_history |-> <<>>, alone_records |-> {},
     before_history |-> <<>>, before_records |-> {}]

\* ChatGUI.__init__ and _create_widgets: not processing, the send button enabled,
\* no worker thread started, nothing scheduled with window.after
IdleGui ==
    [processing |-> FALSE, send_button |-> "normal", workers |-> <<>>,
     after |-> <<>>]

Init ==
    /\ short_term_memory_size \in 0..MaxW
    /\ conversation_history = [u \in {} |-> <<>>]
    /\ collection = {}
    /\ now = 0
    /\ calls = 0
    /\ added = [u \in Users |-> 0]
    /\ removed = [u \in Users |-> 0]
    /\ last = Blank
    /\ threads = [u \in Users |-> IdleThread]
    /\ gui = IdleGui


\* ------------------------------------------------------------------ actions
\* RAGMemorySystem.add_memory
AddMemory(user_id, message, role, metadata) ==
    /\ calls < MaxAdds
    /\ \E timestamp \in ClockReads(now), ok \in BOOLEAN :
         LET rec == NewRecord(user_id, message, role, metadata, timestamp)
         IN /\ now' = timestamp
            /\ calls' = calls + 1
            /\ IF ok
               THEN /\ collection' = CollectionAdd(collection, rec)
                    /\ added' = [added EXCEPT ![rec.user_id] = @ + 1]
                    /\ last' = [Blank EXCEPT !.op = "add_memory", !.user = user_id,
                                  !.outcome = "returned", !.id = rec.id]
               ELSE \* encode or collection.add raised
                    /\ UNCHANGED <<collection, added>>
                    /\ last' = [Blank EXCEPT !.op = "add_memory", !.user = user_id,
                                  !.outcome = "raised"]
    /\ UNCHANGED <<short_term_memory_size, conversation_history, removed, threads,
                   gui>>

\* RAGMemorySystem.search_memories: reads the collection and writes nothing; it
\* returns one of the lists of SearchMemories, or raises (collection.query rejects
\* n_results < 1)
Search(query, user_id, n_results, min_relevance) ==
    /\ n_results >= 1
    /\ UNCHANGED vars

\* RAGMemorySystem.get_user_memory_count: reads the collection and writes nothing
\* it returns GetUserMemoryCount
Count(user_id) ==
    /\ user_id \in Users
    /\ UNCHANGED vars

\* RAGMemorySystem.delete_user_memories
DeleteUserMemories(user_id) ==
    /\ \E ok \in BOOLEAN :
         IF ok
         THEN LET found == Where(collection, user_id)
              IN /\ collection' = DeleteFound(collection, user_id)
                 /\ removed' = [removed EXCEPT ![user_id] = @ + Cardinality(found)]
                 /\ last' = [Blank EXCEPT !.op = "delete_user_memories",
                               !.user = user_id, !.outcome = "returned",
                               !.num = Cardinality(found)]
         ELSE \* collection.get or collection.delete raised
              /\ UNCHANGED <<collection, removed>>
              /\ last' = [Blank EXCEPT !.op = "delete_user_memories",
                            !.user = user_id, !.outcome = "raised"]
    /\ UNCHANGED <<short_term_memory_size, conversation_history, now, calls, added,
                   threads, gui>>

\* RAGMemorySystem.get_recent_memories: reads the collection and writes nothing;
\* it returns one of the lists of GetRecentMemories
Recent(user_id, n_results) ==
    /\ n_results >= 0
    /\ UNCHANGED vars

\* ChatBot.chat. `failed` is the call that raised, if one did; `response` is what
\* _generate_response returned: a generated text, or the apology when the API
\* call raised (`gen`). chat knows nothing of its caller: `gui` is left to the
\* front end that makes the call.
Chat(user_id, message) ==
    \E failed \in {"none", "search", "add_user", "add_assistant"},
       response \in Texts \cup {ApologyText} :
      LET gen == IF response = ApologyText THEN "fail" ELSE "ok"
          hist0 == conversation_history
          call == [Blank EXCEPT !.op = "chat", !.user = user_id,
                     !.query = message, !.failed = failed]
      IN
      IF failed = "search"
      THEN \* search_memories raised: nothing else ran
           /\ last' = [call EXCEPT !.outcome = "raised"]
           /\ UNCHANGED <<short_term_memory_size, conversation_history, collection,
                          now, calls, added, removed, threads>>
      ELSE
        /\ HistLen(hist0, user_id) + (IF failed = "add_user" THEN 1 ELSE 2) <= MaxTurns
        /\ calls + (IF failed = "add_user" THEN 1 ELSE 2) <= 2 * MaxChats
        /\ \E mems \in SearchMemories(collection, message, user_id,
                                      max_memory_results, 0),
              t1 \in ClockReads(now) :
           \E t2 \in ClockReads(t1) :
             LET window == GetShortTermHistory(hist0, user_id, short_term_memory_size)
                 seen == [call EXCEPT !.mems = mems, !.window = window,
                                      !.gen = gen, !.text = response]
                 hist1 == AppendTurn(hist0, user_id, message, "user", t1)
                 coll1 == CollectionAdd(collection,
                              NewRecord(user_id, message, "user", NoMeta, t2))
             IN
             IF failed = "add_user"
             THEN \* the user turn is in the buffer, its add_memory raised
                  /\ conversation_history' = hist1
                  /\ now' = t2
                  /\ calls' = calls + 1
                  /\ last' = [seen EXCEPT !.outcome = "raised"]
                  /\ UNCHANGED <<short_term_memory_size, collection, added, removed,
                                 threads>>
             ELSE
               \E t3 \in ClockReads(t2) :
               \E t4 \in ClockReads(t3) :
                 LET hist2 == AppendTurn(hist1, user_id, response, "assistant", t3)
                     coll2 == CollectionAdd(coll1,
                                  NewRecord(user_id, response, "assistant", NoMeta, t4))
                 IN
                 /\ conversation_history' = hist2
                 /\ now' = t4
                 /\ calls' = calls + 2
                 /\ UNCHANGED <<short_term_memory_size, removed, threads>>
                 /\ IF failed = "add_assistant"
                    THEN \* both turns are in the buffer, the second add_memory raised
                         /\ collection' = coll1
                         /\ added' = [added EXCEPT ![user_id] = @ + 1]
                         /\ last' = [seen EXCEPT !.outcome = "raised"]
                    ELSE /\ collection' = coll2
                         /\ added' = [added EXCEPT ![user_id] = @ + 2]
                         /\ last' = [seen EXCEPT !.outcome = "returned"]

\* ChatBot.clear_short_term_memory
ClearShortTermMemory(user_id) ==
    /\ conversation_history' = DropHistory(conversation_history, user_id)
    /\ last' = [Blank EXCEPT !.op = "clear_short_term_memory", !.user = user_id,
                  !.outcome = "returned",
                  !.turns = HistLen(conversation_history, user_id)]
    /\ UNCHANGED <<short_term_memory_size, collection, now, calls, added, removed,
                   threads, gui>>

\* the dict get_user_stats returns
UserStats(hist, coll, user_id) ==
    [user_id |-> user_id,
     long_term_memories |-> GetUserMemoryCount(coll, user_id),
     short_term_messages |-> HistLen(hist, user_id)]

\* ChatBot.get_user_stats: reads both stores and writes nothing; it returns
\* UserStats
GetUserStats(user_id) ==
    /\ user_id \in Users
    /\ UNCHANGED vars

\* the dict delete_user_data returns
DeleteResult(user_id, deleted_count) ==
    [user_id |-> user_id, deleted_memories |-> deleted_count, status |-> "completed"]

\* ChatBot.delete_user_data
DeleteUserData(user_id) ==
    /\ conversation_history' = DropHistory(conversation_history, user_id)
    /\ \E ok \in BOOLEAN :
         IF ok
         THEN LET deleted_count == Cardinality(Where(collection, user_id))
              IN /\ collection' = DeleteFound(collection, user_id)
                 /\ removed' = [removed EXCEPT ![user_id] = @ + deleted_count]
                 /\ last' = [Blank EXCEPT !.op = "delete_user_data", !.user = user_id,
                               !.outcome = "returned", !.num = deleted_count,
                               !.turns = HistLen(conversation_history, user_id),
                               !.dict = DeleteResult(user_id, deleted_count)]
         ELSE \* delete_user_memories raised, after the buffer was dropped
              /\ UNCHANGED <<collection, removed>>
              /\ last' = [Blank EXCEPT !.op = "delete_user_data", !.user = user_id,
                            !.outcome = "raised"]
    /\ UNCHANGED <<short_term_memory_size, now, calls, added, threads, gui>>

\* PromptBuilder.build_context_from_memories applied to the inputs held in `last`
BuildContext ==
    /\ last.op = "inputs"
    /\ last' = [last EXCEPT !.op = "build_context_from_memories",
                            !.outcome = "returned",
                            !.context = BuildContextFromMemories(last.mems,
                                            last.window, last.query)]
    /\ UNCHANGED <<short_term_memory_size, conversation_history, collection, now,
                   calls, added, removed, threads, gui>>

\* ------------------------------------------------------------------ chat, step by step
\* ChatBot.chat as the steps a thread takes, one chat call per user at a time.
\* chat calls started so far
ChatsStarted == threads["u1"].chats + threads["u2"].chats

\* the role whose turn the thread is saving, and the text of that turn
SavingRole(th) == IF th.pc \in {"append_user", "add_user"} THEN "user" ELSE "assistant"
SavingText(th) == IF SavingRole(th) = "user" THEN th.message ELSE th.response

\* (mutation of ChatSteps: the user's turn saved before the window is read)
ChatStepsSaveFirst ==
    <<"search", "append_user", "add_user", "window", "generate",
      "append_assistant", "add_assistant">>

\* the statements of chat in the order it runs them (chatbot.py:77-98), each
\* _save_to_memory being an append and then an add
ChatSteps ==
    <<"search", "window", "generate", "append_user", "add_user",
      "append_assistant", "add_assistant">>

\* where a thread is once it has done the step: at the next one, or out of chat
After(step) ==
    LET i == CHOOSE k \in 1..Len(ChatSteps) : ChatSteps[k] = step
    IN IF i = Len(ChatSteps) THEN "idle" ELSE ChatSteps[i + 1]

\* the call is over: its locals are gone
Finished(th, outcome) ==
    [th EXCEPT !.pc = "idle", !.message = "", !.mems = <<>>, !.window = <<>>,
               !.context = <<>>, !.response = "", !.outcome = outcome,
               !.before_history = <<>>, !.before_records = {}]

\* (mutation of Raised: the exception swallowed, chat goes on at its next step)
RaisedSwallowed(th) == [th EXCEPT !.pc = After(th.pc)]

\* a step of chat raised: chat has no try/except, the exception ends the call
Raised(th) == Finished(th, "raised")

\* chat is called and runs search_memories (chatbot.py:77-81)
ChatSearch(user_id, message) ==
    /\ threads[user_id].pc = "idle"
    /\ ChatsStarted < MaxChats
    /\ \E ok \in BOOLEAN :
         LET th == [threads[user_id] EXCEPT !.pc = "search", !.chats = @ + 1,
                                            !.message = message, !.failed = "none"]
         IN IF ok
            THEN \E mems \in SearchMemories(collection, message, user_id,
                                            max_memory_results, 0) :
                    threads' = [threads EXCEPT ![user_id] =
                                   [th EXCEPT !.pc = After("search"), !.mems = mems,
                                      !.outcome = "none",
                                      !.before_history =
                                          HistOf(conversation_history, user_id),
                                      !.before_records = Where(collection, user_id)]]
            ELSE \* encode or collection.query raised
                 threads' = [threads EXCEPT ![user_id] =
                                Raised([th EXCEPT !.failed = "search"])]
    /\ UNCHANGED <<short_term_memory_size, conversation_history, collection, now,
                   calls, added, removed, last, gui>>

\* _get_short_term_history (chatbot.py:84)
ChatWindow(user_id) ==
    /\ threads[user_id].pc = "window"
    /\ threads' = [threads EXCEPT ![user_id] =
                      [@ EXCEPT !.pc = After("window"),
                                !.window = GetShortTermHistory(conversation_history,
                                               user_id, short_term_memory_size)]]
    /\ UNCHANGED <<short_term_memory_size, conversation_history, collection, now,
                   calls, added, removed, last, gui>>

\* build_context_from_memories and _generate_response (chatbot.py:87-94): a
\* generated text, or the apology
ChatGenerate(user_id) ==
    /\ threads[user_id].pc = "generate"
    /\ \E response \in Texts \cup {ApologyText} :
         threads' = [threads EXCEPT ![user_id] =
                        [@ EXCEPT !.pc = After("generate"), !.response = response,
                                  !.context = BuildContextFromMemories(
                                      threads[user_id].mems, threads[user_id].window,
                                      threads[user_id].message)]]
    /\ UNCHANGED <<short_term_memory_size, conversation_history, collection, now,
                   calls, added, removed, last, gui>>

\* the short-term half of _save_to_memory (chatbot.py:145-153)
ChatAppend(user_id) ==
    LET th == threads[user_id]
    IN /\ th.pc \in {"append_user", "append_assistant"}
       /\ \E timestamp \in ClockReads(now) :
            /\ now' = timestamp
            /\ conversation_history' =
                   AppendTurn(conversation_history, user_id, SavingText(th),
                              SavingRole(th), timestamp)
            /\ threads' = [threads EXCEPT ![user_id] =
                   [th EXCEPT !.pc = After(th.pc),
                              !.alone_history =
                                  Append(@, [role |-> SavingRole(th),
                                             content |-> SavingText(th),
                                             timestamp |-> timestamp])]]
       /\ UNCHANGED <<short_term_memory_size, collection, calls, added, removed, last,
                      gui>>

\* the long-term half of _save_to_memory (chatbot.py:156-160)
ChatAdd(user_id) ==
    LET th == threads[user_id]
    IN /\ th.pc \in {"add_user", "add_assistant"}
       /\ calls' = calls + 1
       /\ \E timestamp \in ClockReads(now), ok \in BOOLEAN :
            LET rec == NewRecord(user_id, SavingText(th), SavingRole(th), NoMeta,
                                 timestamp)
            IN /\ now' = timestamp
               /\ IF ok
                  THEN /\ collection' = CollectionAdd(collection, rec)
                       /\ added' = [added EXCEPT ![user_id] = @ + 1]
                       /\ threads' = [threads EXCEPT ![user_id] =
                              IF After(th.pc) # "idle"
                              THEN [th EXCEPT !.pc = After(th.pc),
                                     !.alone_records = CollectionAdd(@, rec)]
                              ELSE [Finished(th, "returned") EXCEPT
                                     !.alone_records = CollectionAdd(@, rec)]]
                  ELSE \* add_memory raised: the exception leaves chat
                       /\ threads' = [threads EXCEPT ![user_id] =
                              Raised([th EXCEPT !.failed = th.pc])]
                       /\ UNCHANGED <<collection, added>>
       /\ UNCHANGED <<short_term_memory_size, conversation_history, removed, last,
                      gui>>

\* ------------------------------------------------------------------ ChatGUI
\* ChatGUI.user_id, the one user of a GUI window
GuiUser == "u1"

\* what can be in the input box when a send event arrives
GuiInputs == {"", " ", "hi"}

\* str.strip()
Strip(text) == IF text = " " THEN "" ELSE text

\* (mutation of Busy: the processing flag not tested)
BusyNever(g) == FALSE

\* `if self.processing: return`
Busy(g) == g.processing

\* the worker threads that have not run off the end of _get_ai_response
Unfinished(g) == {w \in 1..Len(g.workers) : g.workers[w].pc # "done"}

\* the worker threads inside chatbot.chat
InChat(g) == {w \in 1..Len(g.workers) : g.workers[w].pc = "chat"}

\* ChatGUI._on_send_click, run by the Tk main loop with the input box holding text
OnSendClick(text) ==
    IF Busy(gui) \/ Strip(text) = ""
    THEN UNCHANGED vars
    ELSE /\ Len(gui.workers) < MaxChats
         /\ gui' = [gui EXCEPT !.processing = TRUE,
                               !.send_button = "disabled",
                               !.workers = Append(@, [pc |-> "chat",
                                                      message |-> Strip(text),
                                                      outcome |-> "none"])]
         /\ UNCHANGED <<short_term_memory_size, conversation_history, collection,
                        now, calls, added, removed, last, threads>>

\* a click on the send button, which Tk delivers only while the button is enabled
SendButton(text) ==
    /\ gui.send_button = "normal"
    /\ OnSendClick(text)

\* <Control-Return> or <Command-Return> in the input box
ReturnKey(text) == OnSendClick(text)

\* _get_ai_response, the call of chatbot.chat: it returns or raises
WorkerChat(w) ==
    /\ w \in InChat(gui)
    /\ Chat(GuiUser, gui.workers[w].message)
    /\ gui' = [gui EXCEPT !.workers[w] =
                  [@ EXCEPT !.pc = "show", !.outcome = last'.outcome]]

\* _get_ai_response, after the call: the answer or the error message is scheduled
\* for display
WorkerShow(w) ==
    /\ w \in 1..Len(gui.workers)
    /\ gui.workers[w].pc = "show"
    /\ gui' = [gui EXCEPT !.workers[w].pc = "finally",
                          !.after = Append(@, IF gui.workers[w].outcome = "returned"
                                              THEN "_add_assistant_message"
                                              ELSE "_add_system_message")]
    /\ UNCHANGED <<short_term_memory_size, conversation_history, collection, now,
                   calls, added, removed, last, threads>>

\* _get_ai_response, the finally clause: _reset_ui is scheduled and the thread ends
WorkerFinally(w) ==
    /\ w \in 1..Len(gui.workers)
    /\ gui.workers[w].pc = "finally"
    /\ gui' = [gui EXCEPT !.workers[w].pc = "done",
                          !.after = Append(@, "_reset_ui")]
    /\ UNCHANGED <<short_term_memory_size, conversation_history, collection, now,
                   calls, added, removed, last, threads>>

\* the Tk main loop runs the callback scheduled first; the display callbacks
\* write to the chat display only
TkCallback ==
    /\ gui.after # <<>>
    /\ gui' = IF Head(gui.after) = "_reset_ui"
              THEN [gui EXCEPT !.after = Tail(@), !.processing = FALSE,
                               !.send_button = "normal"]
              ELSE [gui EXCEPT !.after = Tail(@)]
    /\ UNCHANGED <<short_term_memory_size, conversation_history, collection, now,
                   calls, added, removed, last, threads>>

\* ------------------------------------------------------------------ specifications
\* The long-term store under any caller of its methods.
StoreInit == Init /\ short_term_memory_size = MaxW

StoreNext ==
    \/ \E u \in Users, m \in Texts, r \in Roles, md \in MetaInputs :
          AddMemory(u, m, r, md)
    \/ \E q \in Texts, u \in Users, k \in 1..MaxK, mr \in MinRelevances :
          Search(q, u, k, mr)
    \/ \E u \in Users : Count(u)
    \/ \E u \in Users : DeleteUserMemories(u)
    \/ \E u \in Users, n \in 0..MaxK : Recent(u, n)

StoreSpec == StoreInit /\ [][StoreNext]_vars

\* The chatbot as its front ends drive it.
Next ==
    \/ \E u \in Users, m \in Texts : Chat(u, m) /\ UNCHANGED gui
    \/ \E u \in Users : ClearShortTermMemory(u)
    \/ \E u \in Users : GetUserStats(u)
    \/ \E u \in Users : DeleteUserData(u)

Spec == Init /\ [][Next]_vars

\* Chat calls of different users running as threads, their steps interleaved.
ThreadedNext ==
    \/ \E u \in Users, m \in Texts : ChatSearch(u, m)
    \/ \E u \in Users : ChatWindow(u)
    \/ \E u \in Users : ChatGenerate(u)
    \/ \E u \in Users : ChatAppend(u)
    \/ \E u \in Users : ChatAdd(u)

ThreadedSpec == Init /\ [][ThreadedNext]_vars

\* The GUI front end: send events, its worker threads and the Tk main loop.
GuiNext ==
    \/ \E text \in GuiInputs : SendButton(text)
    \/ \E text \in GuiInputs : ReturnKey(text)
    \/ \E w \in 1..MaxChats : WorkerChat(w)
    \/ \E w \in 1..MaxChats : WorkerShow(w)
    \/ \E w \in 1..MaxChats : WorkerFinally(w)
    \/ TkCallback

GuiSpec == Init /\ [][GuiNext]_vars

\* A started thread keeps running and the main loop keeps serving callbacks.
GuiFairSpec ==
    /\ GuiSpec
    /\ WF_vars(\E w \in 1..MaxChats : WorkerShow(w))
    /\ WF_vars(\E w \in 1..MaxChats : WorkerFinally(w))
    /\ WF_vars(TkCallback)

\* The context composer on any retrieved memories, window and message.
\* sequences over S of length at most n
SeqsUpTo(S, n) == UNION {[1..m -> S] : m \in 0..n}

\* memories as search_memories can hand them over
ComposerMemories ==
    {Memory([user_id |-> "u1", role |-> r, timestamp |-> 0, content |-> "hi"], rel) :
        r \in Roles, rel \in 0..1}

\* turns as _get_short_term_history can hand them over
ComposerTurns == [role : Roles, content : Texts, timestamp : {0}]

ComposeInit ==
    /\ short_term_memory_size = MaxW
    /\ conversation_history = [u \in {} |-> <<>>]
    /\ collection = {}
    /\ now = 0
    /\ calls = 0
    /\ added = [u \in Users |-> 0]
    /\ removed = [u \in Users |-> 0]
    /\ threads = [u \in Users |-> IdleThread]
    /\ gui = IdleGui
    /\ \E memories \in SeqsUpTo(ComposerMemories, MaxK),
          short_term_history \in SeqsUpTo(ComposerTurns, MaxW),
          current_message \in Texts :
          last = [Blank EXCEPT !.op = "inputs", !.mems = memories,
                               !.window = short_term_history,
                               !.query = current_message]

ComposeNext == BuildContext

ComposeSpec == ComposeInit /\ [][ComposeNext]_vars

\* ------------------------------------------------------------------ claims
Returned(op) == last.op = op /\ last.outcome = "returned"

\* Whether the memory list mems holds the projection of record rec.
Holds(mems, rec, rel) == \E i \in 1..Len(mems) : mems[i] = Memory(rec, rel)

\* C1: every Memory that search_memories or get_recent_memories returns for a
\* user carries that user's id in its metadata, whatever the other users' records.
C1_UserIsolation ==
    \A u \in Users :
        /\ \A q \in Texts, k \in 1..MaxK, mr \in MinRelevances :
              \A mems \in SearchMemories(collection, q, u, k, mr) :
                  \A i \in 1..Len(mems) : mems[i].metadata.user_id = u
        /\ \A n \in 0..MaxK :
              \A mems \in GetRecentMemories(collection, u, n) :
                  \A i \in 1..Len(mems) : mems[i].metadata.user_id = u

\* C1 witness: a search returns a record of the caller that is no exact match of
\* the query, while another user holds an exact match.
C1_Witness ==
    \E u \in Users, q \in Texts, k \in 1..MaxK, mr \in MinRelevances :
        \E mems \in SearchMemories(collection, q, u, k, mr) :
            /\ Len(mems) >= 1
            /\ mems[1].relevance < 1
            /\ \E r \in collection : r.user_id # u /\ r.content = q

\* C5 (as claimed): for every user, get_user_memory_count equals the number of
\* add_memory calls for the user that returned minus the number of the user's
\* records that delete_user_memories removed.
C5_CountIsAddsMinusDeletes ==
    \A u \in Users : GetUserMemoryCount(collection, u) = added[u] - removed[u]

\* No search for the user returns anything.
NothingFound(coll, u) ==
    \A q \in Texts, k \in 1..MaxK, mr \in MinRelevances :
        SearchMemories(coll, q, u, k, mr) = {<<>>}

C9_SearchRanking ==
    \A u \in Users, q \in Texts, k \in 1..MaxK, mr \in MinRelevances :
        \A mems \in SearchMemories(collection, q, u, k, mr) :
            LET own == Where(collection, u)
            IN /\ Len(mems) <= k
               /\ \A i \in 1..Len(mems) :
                     /\ mems[i].relevance >= mr
                     /\ \E r \in own : mems[i] = Memory(r, Relevance(q, r))
               /\ \A i, j \in 1..Len(mems) :
                     i < j => mems[i].relevance >= mems[j].relevance
               /\ \A r \in own :
                     (/\ Relevance(q, r) >= mr
                      /\ \E i \in 1..Len(mems) : mems[i].relevance < Relevance(q, r))
                     => Holds(mems, r, Relevance(q, r))

\* C9 witness: a search returns two records at different distances, the nearer
\* first, while a third record of the user does not fit within k.
C9_Witness ==
    \E u \in Users, q \in Texts, mr \in MinRelevances :
        \E mems \in SearchMemories(collection, q, u, 2, mr) :
            /\ Len(mems) = 2
            /\ mems[1].relevance > mems[2].relevance
            /\ Cardinality(Where(collection, u)) = 3

\* C10 (as claimed): of two records of the user with equal relevance, the one with
\* the later timestamp comes first, and it is the one kept when only one fits.
C10_TiesNewestFirst ==
    \A u \in Users, q \in Texts, k \in 1..MaxK, mr \in MinRelevances :
        \A mems \in SearchMemories(collection, q, u, k, mr) :
            /\ \A i, j \in 1..Len(mems) :
                  (i < j /\ mems[i].relevance = mems[j].relevance)
                  => mems[i].timestamp >= mems[j].timestamp
            /\ \A r \in Where(collection, u), i \in 1..Len(mems) :
                  (Relevance(q, r) = mems[i].relevance
                      /\ r.timestamp > mems[i].timestamp)
                  => Holds(mems, r, Relevance(q, r))

\* C2 (as claimed): a chat whose generation call failed leaves the user's
\* short-term buffer and long-term records as they were.
C2_FailedTurnNotRecorded ==
    [][(last'.op = "chat" /\ last'.gen = "fail") =>
          /\ HistOf(conversation_history', last'.user)
                = HistOf(conversation_history, last'.user)
          /\ Where(collection', last'.user) = Where(collection, last'.user)]_vars

\* C3 (as claimed): when generation succeeded, chat returns the response even if
\* a long-term write failed.
C3_ReplyDespiteWriteFailure ==
    (last.op = "chat" /\ last.gen = "ok" /\ last.failed \in {"add_user", "add_assistant"})
        => last.outcome = "returned"

\* C4 (as claimed): the window has at most short_term_memory_size entries, and
\* once one turn more than that was appended it is those turns without the oldest.
C4_WindowBounded ==
    \A u \in Users :
        LET window == GetShortTermHistory(conversation_history, u,
                                          short_term_memory_size)
            turns == HistOf(conversation_history, u)
        IN /\ Len(window) <= short_term_memory_size
           /\ Len(turns) = short_term_memory_size + 1 => window = Tail(turns)

\* C7: when delete_user_data(user) returns, the user has no short-term buffer and
\* no long-term records, and every other user's buffer and records are as before.
C7_DeleteUserDataFrame ==
    [][(last'.op = "delete_user_data" /\ last'.outcome = "returned") =>
          LET u == last'.user
              stats == UserStats(conversation_history', collection', u)
          IN /\ u \notin DOMAIN conversation_history'
             /\ stats.short_term_messages = 0
             /\ stats.long_term_memories = 0
             /\ GetShortTermHistory(conversation_history', u,
                                    short_term_memory_size') = <<>>
             /\ \A v \in Users \ {u} :
                   /\ v \in DOMAIN conversation_history'
                         <=> v \in DOMAIN conversation_history
                   /\ HistOf(conversation_history', v)
                         = HistOf(conversation_history, v)
                   /\ Where(collection', v) = Where(collection, v)]_vars

\* C7 witness: delete_user_data removed a user's turns and records while the other
\* user has a buffer and records.
C7_Witness ==
    /\ Returned("delete_user_data")
    /\ last.turns >= 1
    /\ last.num >= 1
    /\ \E v \in Users \ {last.user} :
          /\ v \in DOMAIN conversation_history
          /\ Where(collection, v) # {}

\* the fields of a result dict that carry a count
CountFields(dict) == (DOMAIN dict) \ {"user_id", "status"}

\* C8 (as claimed): the result of delete_user_data carries two counts, the
\* short-term turns removed and the long-term records deleted.
C8_BothCountsReported ==
    Returned("delete_user_data") =>
        \E short, long \in CountFields(last.dict) :
            /\ short # long
            /\ last.dict[short] = last.turns
            /\ last.dict[long] = last.num

\* C11 (as claimed): every Memory that search_memories returns has a relevance
\* between 0 and 1, whatever distance the backend reported and whatever
\* min_relevance the caller passed.
C11_RelevanceInUnitRange ==
    \A u \in Users, q \in Texts, k \in 1..MaxK, mr \in MinRelevances :
        \A mems \in SearchMemories(collection, q, u, k, mr) :
            \A i \in 1..Len(mems) : mems[i].relevance \in 0..1

\* Whether the piece occurs in the text.
Occurs(piece, text) == \E i \in 1..Len(text) : text[i] = piece

\* C12: the context carries the first-conversation line exactly when memories and
\* history are both empty, the long-term header exactly when memories is not
\* empty, the conversation header exactly when history is not empty, and it always
\* ends with the separator line and then the line of the current message.
C12_ContextShape ==
    Returned("build_context_from_memories") =>
        LET text == last.context
            ending == <<"\n", SeparatorLine, "\n", CurrentPrefix, last.query>>
        IN /\ Occurs(FirstTimeLine, text) <=> (last.mems = <<>> /\ last.window = <<>>)
           /\ Occurs(LongTermHeader, text) <=> last.mems # <<>>
           /\ Occurs(ShortTermHeader, text) <=> last.window # <<>>
           /\ Len(text) >= Len(ending)
           /\ SubSeq(text, Len(text) - Len(ending) + 1, Len(text)) = ending

\* C12 witness: a context built from a non-empty window and no memories, for an
\* empty current message.
C12_Witness ==
    /\ Returned("build_context_from_memories")
    /\ last.mems = <<>>
    /\ Len(last.window) = 2
    /\ last.query = ""
    /\ ~Occurs(FirstTimeLine, last.context)

\* C13: clear_short_term_memory(user) returns; it leaves a user without a buffer
\* as they were, a second clear right after a first changes nothing, and in every
\* case the long-term records and the other users' buffers are as before.
C13_ClearIdempotent ==
    [][last'.op = "clear_short_term_memory" =>
          LET u == last'.user
          IN /\ last'.outcome = "returned"
             /\ u \notin DOMAIN conversation_history'
             /\ HistOf(conversation_history, u) = <<>>
                   => conversation_history' = conversation_history
             /\ (last.op = "clear_short_term_memory" /\ last.user = u)
                   => conversation_history' = conversation_history
             /\ collection' = collection
             /\ \A v \in Users :
                   GetUserMemoryCount(collection', v) = GetUserMemoryCount(collection, v)
             /\ \A v \in Users \ {u} :
                   /\ v \in DOMAIN conversation_history'
                         <=> v \in DOMAIN conversation_history
                   /\ HistOf(conversation_history', v)
                         = HistOf(conversation_history, v)]_vars

\* C13 witness: a clear dropped a user's turns while that user has long-term
\* records and the other user has a buffer.
C13_Witness ==
    /\ Returned("clear_short_term_memory")
    /\ last.turns >= 2
    /\ Where(collection, last.user) # {}
    /\ \E v \in Users \ {last.user} : v \in DOMAIN conversation_history

\* C14 (as claimed): the id of an add_memory call that returned differs from the
\* id of every record already stored, and the call stored one record more.
C14_UniqueIds ==
    [][(last'.op = "add_memory" /\ last'.outcome = "returned") =>
          /\ \A r \in collection : r.id # last'.id
          /\ Cardinality(collection') = Cardinality(collection) + 1]_vars

\* C15 (as claimed): every record of the long-term store has non-empty content.
C15_NonEmptyContent == \A r \in collection : r.content # ""

\* C16: get_recent_memories(user, n) returns min(n, count(user)) memories, each
\* the projection of a record of the user with relevance 1 and no record listed
\* more often than it is stored, in non-increasing timestamp order, leaving out no
\* record newer than one it lists; it is empty when the user has no records.
C16_RecentNewestFirst ==
    \A u \in Users, n \in 0..MaxK :
        \A mems \in GetRecentMemories(collection, u, n) :
            LET own == Where(collection, u)
            IN /\ Len(mems) = Min(n, GetUserMemoryCount(collection, u))
               /\ own = {} => mems = <<>>
               /\ \A i \in 1..Len(mems) :
                     /\ mems[i].relevance = 1
                     /\ Cardinality({j \in 1..Len(mems) : mems[j] = mems[i]})
                           <= Cardinality({r \in own : Memory(r, 1) = mems[i]})
               /\ \A i, j \in 1..Len(mems) :
                     i < j => mems[i].timestamp >= mems[j].timestamp
               /\ \A r \in own :
                     (\E i \in 1..Len(mems) : mems[i].timestamp < r.timestamp)
                     => Holds(mems, r, 1)

\* C16 witness: a listing of two of a user's three records, the first newer than
\* the second.
C16_Witness ==
    \E u \in Users :
        \E mems \in GetRecentMemories(collection, u, 2) :
            /\ Len(mems) = 2
            /\ mems[1].timestamp > mems[2].timestamp
            /\ Cardinality(Where(collection, u)) = 3

\* C18 (as claimed): when in one chat call the long-term write of the user's turn
\* succeeded and that of the assistant's turn failed, the user's count has grown by
\* exactly 1 and a user-role record with the message is stored for the user.
C18_NoRollback ==
    [][(last'.op = "chat" /\ last'.failed = "add_assistant") =>
          LET u == last'.user
          IN /\ GetUserMemoryCount(collection', u)
                   = GetUserMemoryCount(collection, u) + 1
             /\ \E r \in Where(collection', u) :
                   r.role = "user" /\ r.content = last'.query]_vars

\* C19 (as claimed): the short-term count that get_user_stats reports is at most
\* short_term_memory_size.
C19_StatsCountCapped ==
    \A u \in Users :
        UserStats(conversation_history, collection, u).short_term_messages
            <= short_term_memory_size

\* C20 (as claimed): after a chat call whose generation succeeded, the user's
\* buffer ends with the user's message and then the response, also when a
\* long-term write of either turn failed.
C20_BothTurnsBuffered ==
    (last.op = "chat" /\ last.gen = "ok" /\ last.failed # "search") =>
        LET turns == HistOf(conversation_history, last.user)
            n == Len(turns)
        IN /\ n >= 2
           /\ turns[n - 1].role = "user" /\ turns[n - 1].content = last.query
           /\ turns[n].role = "assistant" /\ turns[n].content = last.text

\* conversation_history as it would be with the user's own calls alone
AloneBuffer(u) ==
    IF threads[u].alone_history = <<>> THEN [x \in {} |-> <<>>]
    ELSE [x \in {u} |-> threads[u].alone_history]

\* C17: at every point of every interleaving of the chat steps of different users,
\* each user's short-term buffer and long-term records are those the user's own
\* calls alone have produced, and what a call has read (the memories found, the
\* window) is what it would have read alone.
C17_UsersIndependent ==
    \A u \in Users :
        LET th == threads[u]
        IN /\ HistOf(conversation_history, u) = th.alone_history
           /\ Where(collection, u) = th.alone_records
           /\ th.pc = "window" =>
                 th.mems \in SearchMemories(th.alone_records, th.message, u,
                                            max_memory_results, 0)
           /\ th.pc = "generate" =>
                 th.window = GetShortTermHistory(AloneBuffer(u), u,
                                                 short_term_memory_size)

\* C17 witness: both users are inside a chat call at once, each with its user turn
\* in the buffer and in the store, written at the same clock reading.
C17_Witness ==
    /\ \A u \in Users :
          /\ threads[u].pc = "append_assistant"
          /\ Len(threads[u].alone_history) = 1
          /\ Cardinality(threads[u].alone_records) = 1
    /\ \E r1, r2 \in collection :
          r1.user_id # r2.user_id /\ r1.timestamp = r2.timestamp

\* C21: at most one worker is inside chatbot.chat, a worker thread is started only
\* when every earlier one has run to its end, and once a chat call has completed
\* (returned or raised) the send button is eventually enabled again.
C21_SingleInFlight ==
    /\ [](Cardinality(InChat(gui)) <= 1)
    /\ [][Len(gui'.workers) > Len(gui.workers) => Unfinished(gui) = {}]_vars
    /\ (\E w \in 1..Len(gui.workers) : gui.workers[w].pc = "show")
          ~> (gui.send_button = "normal" /\ ~gui.processing)

\* C21 witness: a second chat call is in flight after the first one raised and the
\* button was enabled again.
C21_Witness ==
    /\ Len(gui.workers) = 2
    /\ gui.workers[1].pc = "done" /\ gui.workers[1].outcome = "raised"
    /\ gui.workers[2].pc = "chat"
    /\ gui.processing /\ gui.send_button = "disabled"

\* conversation_history with the user's buffer as the call in flight found it
BeforeBuffer(u) ==
    IF threads[u].before_history = <<>> THEN [x \in {} |-> <<>>]
    ELSE [x \in {u} |-> threads[u].before_history]

\* C22: until chat has read the memories and the window, the user's buffer and
\* records are as the call found them; and the context it hands to the generation
\* call is built from memories found among the records of before the call, from
\* the window of the buffer of before the call, and from the message.
C22_RetrievalBeforePersistence ==
    \A u \in Users :
        LET th == threads[u]
        IN /\ th.pc \in {"window", "generate"} =>
                 /\ HistOf(conversation_history, u) = th.before_history
                 /\ Where(collection, u) = th.before_records
           /\ th.context # <<>> =>
                 /\ th.context = BuildContextFromMemories(th.mems, th.window,
                                                          th.message)
                 /\ th.mems \in SearchMemories(th.before_records, th.message, u,
                                               max_memory_results, 0)
                 /\ th.window = GetShortTermHistory(BeforeBuffer(u), u,
                                                    short_term_memory_size)

\* C22 witness: a second call of a user has built its context from a memory and a
\* window of the first call and has since put its own turn in the buffer.
C22_Witness ==
    \E u \in Users :
        LET th == threads[u]
        IN /\ th.pc = "add_user"
           /\ th.context # <<>>
           /\ th.mems # <<>>
           /\ th.window # <<>>
           /\ Len(HistOf(conversation_history, u)) = Len(th.before_history) + 1

\* C23: a chat call whose search raised is over at once with the error as its
\* outcome, no context built and no response generated, and the step that raised
\* left the buffers and the long-term store as they were.
C23_SearchFailureLeavesAll ==
    /\ [](\A u \in Users :
             threads[u].failed = "search" =>
                 /\ threads[u].pc = "idle"
                 /\ threads[u].outcome = "raised"
                 /\ threads[u].context = <<>>
                 /\ threads[u].response = "")
    /\ [][\A u \in Users :
             (threads'[u].failed = "search" /\ threads'[u].chats # threads[u].chats) =>
                 /\ conversation_history' = conversation_history
                 /\ collection' = collection]_vars

\* C23 witness: the search of a user's second call raised, with the turns and
\* records of the first call in place.
C23_Witness ==
    \E u \in Users :
        /\ threads[u].failed = "search"
        /\ threads[u].chats = 2
        /\ Len(HistOf(conversation_history, u)) = 2
        /\ Cardinality(Where(collection, u)) = 2
====
